---- MODULE Spec2Model ----
(***************************************************************************)
(* Model of src/src/hash_map.rs: a separate-chaining hash map              *)
(* (HashMap<K,V>) and its borrowing iterator (Iter).                       *)
(*                                                                         *)
(* Representation.  `buckets: Vec<Vec<(K,V)>>` is kept as three fields of  *)
(* the record `map`:                                                       *)
(*   map.nbuckets  = self.buckets.len()                                    *)
(*   map.capacity  = self.buckets.capacity()                               *)
(*   map.buckets   = the chains, as a function from the indices of the     *)
(*                   NON-EMPTY buckets to their chain (a sequence of       *)
(*                   <<key, value>>); every index in 0..nbuckets-1 outside *)
(*                   its domain is an empty chain (see Bucket).            *)
(*   map.len       = self.len                                              *)
(* DefaultHasher (SipHash) is a deterministic function of the key; it is   *)
(* modelled by `hasher`, a function chosen once in Init and never changed. *)
(***************************************************************************)
EXTENDS Integers, Sequences, FiniteSets, Bags, TLC

INITIAL_SIZE == 1024

\* bounds of the model
MaxKey  == 3
MaxVal  == 2
MaxPuts == 3
MaxNones == 2

Keys == 1..MaxKey
Vals == 1..MaxVal

\* The hash functions a run may have.  Key k hashes to 5 + stride * (k - 1):
\* with stride 1024 keys 1 and 3 share a bucket while there are at most 2048
\* buckets and all keys are apart from 4096 on; with stride 2048 all keys
\* share bucket 5 up to 2048 buckets and keys 1 and 3 still do at 4096.
Strides == {1024, 2048}
HashFns == {[k \in Keys |-> 5 + stride * (k - 1)] : stride \in Strides}

VARIABLES map, hasher, iter, last, inserted, live, nputs, panicked

vars == <<map, hasher, iter, last, inserted, live, nputs, panicked>>

----------------------------------------------------------------------------
\* Option<V>, bool, usize and () results, and the panic outcome
None    == [tag |-> "None", val |-> 0]
Some(v) == [tag |-> "Some", val |-> v]
Bool(b) == [tag |-> "Bool", val |-> IF b THEN 1 ELSE 0]
Usize(n) == [tag |-> "Usize", val |-> n]
Unit    == [tag |-> "Unit", val |-> 0]
Panic   == [tag |-> "Panic", val |-> 0]

\* result of `x % 0`: the remainder panics
DivByZero == -1

Min(S) == CHOOSE x \in S : \A y \in S : x <= y

\* self.buckets[i]
Bucket(b, i) == IF i \in DOMAIN b THEN b[i] ELSE <<>>

\* self.buckets[i] = chain
SetBucket(b, i, chain) ==
    IF chain = <<>>
    THEN [j \in DOMAIN b \ {i} |-> b[j]]
    ELSE [j \in DOMAIN b \cup {i} |-> IF j = i THEN chain ELSE b[j]]

\* the entries of the buckets with index in S, in array order and, within a
\* bucket, in storage order
RECURSIVE Drain(_, _)
Drain(b, S) ==
    IF S = {} THEN <<>>
    ELSE LET i == Min(S) IN b[i] \o Drain(b, S \ {i})

AllEntries(m) == Drain(m.buckets, DOMAIN m.buckets)

\* HashMap::new
New == [buckets |-> <<>>, nbuckets |-> 0, capacity |-> 0, len |-> 0]

\* HashMap::calculate_hash
calculate_hash(key, length) ==
    IF length = 0 THEN DivByZero ELSE hasher[key] % length

\* the first of the matching positions of a chain an iterator walks from the
\* front, 0 when no position matches
FirstIndex(matching) == IF matching = {} THEN 0 ELSE Min(matching)

\* get that looks at the first entry of the chain only
get_first_only(m, key) ==
    LET index == calculate_hash(key, m.nbuckets) IN
    IF index = DivByZero THEN Panic
    ELSE LET chain == Bucket(m.buckets, index)
             pos == FirstIndex({i \in 1..Len(chain) : i = 1 /\ chain[i][1] = key})
         IN IF pos # 0 THEN Some(chain[pos][2]) ELSE None

\* HashMap::get
get(m, key) ==
    LET index == calculate_hash(key, m.nbuckets) IN
    IF index = DivByZero THEN Panic
    ELSE LET chain == Bucket(m.buckets, index)
             pos == FirstIndex({i \in 1..Len(chain) : chain[i][1] = key})
         IN IF pos # 0 THEN Some(chain[pos][2]) ELSE None

\* HashMap::contains_key
contains_key(m, key) ==
    LET r == get(m, key) IN
    IF r = Panic THEN Panic ELSE Bool(r.tag = "Some")

\* HashMap::is_empty
is_empty(m) == m.len = 0

\* HashMap::size
size(m) == m.len

\* Rehash that stores the entry as the whole chain instead of appending it
RECURSIVE Rehash_overwrites(_, _, _)
Rehash_overwrites(entries, newb, length) ==
    IF entries = <<>> THEN newb
    ELSE LET e == Head(entries)
             hash == calculate_hash(e[1], length)
         IN Rehash_overwrites(Tail(entries), SetBucket(newb, hash, <<e>>), length)

\* the loop of resize: push every drained entry into the bucket of the new
\* array that its key hashes to
RECURSIVE Rehash(_, _, _)
Rehash(entries, newb, length) ==
    IF entries = <<>> THEN newb
    ELSE LET e == Head(entries)
             hash == calculate_hash(e[1], length)
         IN Rehash(Tail(entries),
                   SetBucket(newb, hash, Append(Bucket(newb, hash), e)),
                   length)

\* resize that grows by INITIAL_SIZE buckets instead of doubling
resize_adds_initial(m) ==
    LET target_size == m.nbuckets + INITIAL_SIZE
    IN [buckets  |-> Rehash(AllEntries(m), <<>>, target_size),
        nbuckets |-> target_size,
        capacity |-> target_size,
        len      |-> m.len]

\* resize that rehashes against the old number of buckets
resize_old_length(m) ==
    LET target_size == IF m.nbuckets = 0 THEN INITIAL_SIZE ELSE 2 * m.nbuckets
    IN [buckets  |-> Rehash(AllEntries(m), <<>>, m.nbuckets),
        nbuckets |-> target_size,
        capacity |-> target_size,
        len      |-> m.len]

\* HashMap::resize.  Vec::with_capacity(target_size) allocates exactly
\* target_size slots and extend fills all of them, so the new array has
\* len() = capacity() = target_size.
resize(m) ==
    LET target_size == IF m.nbuckets = 0 THEN INITIAL_SIZE ELSE 2 * m.nbuckets
    IN [buckets  |-> Rehash(AllEntries(m), <<>>, target_size),
        nbuckets |-> target_size,
        capacity |-> target_size,
        len      |-> m.len]

\* put whose update arm takes the first entry of the chain whatever its key
put_replaces_first(m, key, val) ==
    LET m1 == IF m.nbuckets = 0 \/ m.nbuckets >= m.capacity \div 2
              THEN resize(m) ELSE m
        hash_val == calculate_hash(key, m1.nbuckets)
        chain == Bucket(m1.buckets, hash_val)
        pos == FirstIndex({i \in 1..Len(chain) : chain[i][1] = chain[i][1]})
    IN IF pos # 0
       THEN [m1 EXCEPT !.len = @ + 1,
                       !.buckets = SetBucket(@, hash_val,
                                       [chain EXCEPT ![pos] = <<chain[pos][1], val>>])]
       ELSE [m1 EXCEPT !.len = @ + 1,
                       !.buckets = SetBucket(@, hash_val, Append(chain, <<key, val>>))]

\* put whose insert arm does not count the new entry
put_forgets_len(m, key, val) ==
    LET m1 == IF m.nbuckets = 0 \/ m.nbuckets >= m.capacity \div 2
              THEN resize(m) ELSE m
        hash_val == calculate_hash(key, m1.nbuckets)
        chain == Bucket(m1.buckets, hash_val)
        pos == FirstIndex({i \in 1..Len(chain) : key = chain[i][1]})
    IN IF pos # 0
       THEN [m1 EXCEPT !.len = @ + 1,
                       !.buckets = SetBucket(@, hash_val,
                                       [chain EXCEPT ![pos] = <<chain[pos][1], val>>])]
       ELSE [m1 EXCEPT !.buckets = SetBucket(@, hash_val, Append(chain, <<key, val>>))]

\* put that computes the bucket index before it resizes (against the old
\* number of buckets, when there are buckets)
put_hash_before_resize(m, key, val) ==
    LET m1 == IF m.nbuckets = 0 \/ m.nbuckets >= m.capacity \div 2
              THEN resize(m) ELSE m
        hash_val == calculate_hash(key, IF m.nbuckets = 0 THEN m1.nbuckets
                                         ELSE m.nbuckets)
        chain == Bucket(m1.buckets, hash_val)
        pos == FirstIndex({i \in 1..Len(chain) : key = chain[i][1]})
    IN IF pos # 0
       THEN [m1 EXCEPT !.len = @ + 1,
                       !.buckets = SetBucket(@, hash_val,
                                       [chain EXCEPT ![pos] = <<chain[pos][1], val>>])]
       ELSE [m1 EXCEPT !.len = @ + 1,
                       !.buckets = SetBucket(@, hash_val, Append(chain, <<key, val>>))]

\* put whose update arm leaves the stored value as it is
put_keeps_old_value(m, key, val) ==
    LET m1 == IF m.nbuckets = 0 \/ m.nbuckets >= m.capacity \div 2
              THEN resize(m) ELSE m
        hash_val == calculate_hash(key, m1.nbuckets)
        chain == Bucket(m1.buckets, hash_val)
        pos == FirstIndex({i \in 1..Len(chain) : key = chain[i][1]})
    IN IF pos # 0
       THEN [m1 EXCEPT !.len = @ + 1]
       ELSE [m1 EXCEPT !.len = @ + 1,
                       !.buckets = SetBucket(@, hash_val, Append(chain, <<key, val>>))]

\* HashMap::put
put(m, key, val) ==
    LET m1 == IF m.nbuckets = 0 \/ m.nbuckets >= m.capacity \div 2
              THEN resize(m) ELSE m
        hash_val == calculate_hash(key, m1.nbuckets)
        chain == Bucket(m1.buckets, hash_val)
        pos == FirstIndex({i \in 1..Len(chain) : key = chain[i][1]})
    IN IF pos # 0
       THEN [m1 EXCEPT !.len = @ + 1,
                       !.buckets = SetBucket(@, hash_val,
                                       [chain EXCEPT ![pos] = <<chain[pos][1], val>>])]
       ELSE [m1 EXCEPT !.len = @ + 1,
                       !.buckets = SetBucket(@, hash_val, Append(chain, <<key, val>>))]

\* Vec::swap_remove (pos is 1-based)
swap_remove(chain, pos) ==
    LET n == Len(chain) IN
    SubSeq([chain EXCEPT ![pos] = chain[n]], 1, n - 1)

\* remove without the is_empty check at its start
remove_no_guard(m, key) ==
    LET hash_val == calculate_hash(key, m.nbuckets) IN
    IF hash_val = DivByZero THEN [map |-> m, ret |-> Panic]
    ELSE LET chain == Bucket(m.buckets, hash_val)
             pos == FirstIndex({index \in 1..Len(chain) :
                                   chain[index][1] = chain[index][1]})
         IN IF pos # 0
            THEN [map |-> [m EXCEPT !.len = @ - 1,
                                    !.buckets = SetBucket(@, hash_val,
                                                    swap_remove(chain, pos))],
                  ret |-> Some(chain[pos][2])]
            ELSE [map |-> m, ret |-> None]

\* HashMap::remove; the result is the map afterwards and the returned value
remove(m, key) ==
    IF is_empty(m) THEN [map |-> m, ret |-> None]
    ELSE LET hash_val == calculate_hash(key, m.nbuckets) IN
         IF hash_val = DivByZero THEN [map |-> m, ret |-> Panic]
         ELSE LET chain == Bucket(m.buckets, hash_val)
                  \* `*y == self.buckets[hash_val][index].0`: y is the key
                  \* of the entry at `index` itself
                  pos == FirstIndex({index \in 1..Len(chain) :
                                        chain[index][1] = chain[index][1]})
              IN IF pos # 0
                 THEN [map |-> [m EXCEPT !.len = @ - 1,
                                         !.buckets = SetBucket(@, hash_val,
                                                         swap_remove(chain, pos))],
                       ret |-> Some(chain[pos][2])]
                 ELSE [map |-> m, ret |-> None]

\* the bucket cursor after the run of empty buckets that starts at index
\* `from`: each of them takes the `None => { outer += 1; inner = 0 }` arm, so
\* the loop reaches the next non-empty bucket, or the end of the array
SkipEmpty(m, from) ==
    LET rest == {j \in DOMAIN m.buckets : j >= from} IN
    IF rest = {} THEN IF from < m.nbuckets THEN m.nbuckets ELSE from
    ELSE Min(rest)

\* next that rewinds the cursor when it runs off the end of the array
RECURSIVE next_restarts(_, _, _)
next_restarts(m, outer, inner) ==
    IF outer < m.nbuckets
    THEN LET chain == Bucket(m.buckets, outer) IN
         IF inner < Len(chain)
         THEN [outer |-> outer, inner |-> inner + 1, item |-> <<chain[inner + 1]>>]
         ELSE next_restarts(m, SkipEmpty(m, outer + 1), 0)
    ELSE [outer |-> 0, inner |-> 0, item |-> <<>>]

\* next that moves to the following bucket without resetting inner to 0
RECURSIVE next_keeps_inner(_, _, _)
next_keeps_inner(m, outer, inner) ==
    IF outer < m.nbuckets
    THEN LET chain == Bucket(m.buckets, outer) IN
         IF inner < Len(chain)
         THEN [outer |-> outer, inner |-> inner + 1, item |-> <<chain[inner + 1]>>]
         ELSE next_keeps_inner(m, SkipEmpty(m, outer + 1), inner)
    ELSE [outer |-> outer, inner |-> inner, item |-> <<>>]

\* the loop of Iter::next from cursor (outer, inner)
RECURSIVE next(_, _, _)
next(m, outer, inner) ==
    IF outer < m.nbuckets
    THEN LET chain == Bucket(m.buckets, outer) IN
         IF inner < Len(chain)
         THEN [outer |-> outer, inner |-> inner + 1, item |-> <<chain[inner + 1]>>]
         ELSE next(m, SkipEmpty(m, outer + 1), 0)
    ELSE [outer |-> outer, inner |-> inner, item |-> <<>>]

----------------------------------------------------------------------------
\* yielded: the items next has returned; done: the last call returned None;
\* nones: how many calls returned None
NoIter == [active |-> FALSE, outer |-> 0, inner |-> 0, yielded |-> <<>>,
           done |-> FALSE, nones |-> 0]

NoneInserted == [k \in Keys |-> 0]

Init ==
    /\ map = New
    /\ hasher \in HashFns
    /\ iter = NoIter
    /\ last = [op |-> "new", key |-> 0, val |-> 0, ret |-> Unit, pre |-> New]
    /\ inserted = NoneInserted
    /\ live = {}
    /\ nputs = 0
    /\ panicked = FALSE

\* a call finished with result r; a panic ends the program
Returned(op, key, val, r) ==
    /\ last' = [op |-> op, key |-> key, val |-> val, ret |-> r, pre |-> map]
    /\ panicked' = (r = Panic)

\* put and remove take &mut self: no iterator borrows the map then
Put(key, val) ==
    /\ ~panicked /\ ~iter.active
    /\ nputs < MaxPuts
    /\ map' = put(map, key, val)
    /\ Returned("put", key, val, Unit)
    /\ inserted' = [inserted EXCEPT ![key] = val]
    /\ live' = live \cup {key}
    /\ nputs' = nputs + 1
    /\ UNCHANGED <<hasher, iter>>

Remove(key) ==
    /\ ~panicked /\ ~iter.active
    /\ LET r == remove(map, key) IN
         /\ map' = r.map
         /\ Returned("remove", key, 0, r.ret)
    /\ inserted' = NoneInserted
    /\ live' = live \ {key}
    /\ UNCHANGED <<hasher, iter, nputs>>

\* The model runs an iteration on its own: between into_iter and the end of
\* the iterator's scope only next is called.  (The lookups take &self and
\* could run meanwhile; they change nothing the iterator reads.)
Get(key) ==
    /\ ~panicked /\ ~iter.active
    /\ Returned("get", key, 0, get(map, key))
    /\ UNCHANGED <<map, hasher, iter, inserted, live, nputs>>

ContainsKey(key) ==
    /\ ~panicked /\ ~iter.active
    /\ Returned("contains_key", key, 0, contains_key(map, key))
    /\ UNCHANGED <<map, hasher, iter, inserted, live, nputs>>

IsEmpty ==
    /\ ~panicked /\ ~iter.active
    /\ Returned("is_empty", 0, 0, Bool(is_empty(map)))
    /\ UNCHANGED <<map, hasher, iter, inserted, live, nputs>>

Size ==
    /\ ~panicked /\ ~iter.active
    /\ Returned("size", 0, 0, Usize(size(map)))
    /\ UNCHANGED <<map, hasher, iter, inserted, live, nputs>>

\* IntoIterator for &HashMap
IntoIter ==
    /\ ~panicked /\ ~iter.active
    /\ iter' = [NoIter EXCEPT !.active = TRUE]
    /\ Returned("into_iter", 0, 0, Unit)
    /\ UNCHANGED <<map, hasher, inserted, live, nputs>>

\* Iter::next
IterNext ==
    /\ ~panicked /\ iter.active
    /\ iter.nones < MaxNones
    /\ LET r == next(map, iter.outer, iter.inner) IN
         /\ iter' = [iter EXCEPT !.outer = r.outer, !.inner = r.inner,
                                 !.yielded = @ \o r.item,
                                 !.done = (r.item = <<>>),
                                 !.nones = IF r.item = <<>> THEN @ + 1 ELSE @]
         /\ Returned("next", 0, 0, IF r.item = <<>> THEN None ELSE Some(r.item[1][2]))
    /\ UNCHANGED <<map, hasher, inserted, live, nputs>>

\* the iterator goes out of scope and the borrow ends
IterDrop ==
    /\ ~panicked /\ iter.active
    /\ iter' = NoIter
    /\ Returned("drop", 0, 0, Unit)
    /\ UNCHANGED <<map, hasher, inserted, live, nputs>>

Next ==
    \/ \E key \in Keys, val \in Vals : Put(key, val)
    \/ \E key \in Keys : Remove(key)
    \/ \E key \in Keys : Get(key)
    \/ \E key \in Keys : ContainsKey(key)
    \/ IsEmpty
    \/ Size
    \/ IntoIter
    \/ IterNext
    \/ IterDrop

Spec == Init /\ [][Next]_vars

TypeOK ==
    /\ map.nbuckets \in Nat /\ map.len \in Nat
    /\ \A i \in DOMAIN map.buckets : i \in 0..(map.nbuckets - 1) /\ map.buckets[i] # <<>>
----------------------------------------------------------------------------
\* an entry with this key is stored somewhere in the table
Stored(m, key) ==
    \E i \in DOMAIN m.buckets : \E p \in 1..Len(m.buckets[i]) : m.buckets[i][p][1] = key

\* the positions <<bucket, slot>> of the entries with this key
Positions(m, key) ==
    UNION {{<<i, p>> : p \in {q \in 1..Len(m.buckets[i]) : m.buckets[i][q][1] = key}} :
           i \in DOMAIN m.buckets}

\* the put that just returned went through resize
Resized == last.op = "put" /\ map.nbuckets # last.pre.nbuckets

\* C1: immediately after put(k, v), get(k) returns Some(v), for an insert, for
\* an update and when the put resized.
InsertThenGet ==
    last.op = "put" => get(map, last.key) = Some(last.val)

\* a put that resized and replaced another value of its key
InsertThenGetWitness ==
    /\ last.op = "put" /\ Resized
    /\ get(last.pre, last.key) \in {Some(v) : v \in Vals \ {last.val}}
    /\ get(map, last.key) = Some(last.val)

\* C2: the count equals the number of stored entries, a put on a stored key
\* does not increase size(), and is_empty() holds exactly when nothing is
\* stored.
CountEqualsEntries ==
    /\ size(map) = Len(AllEntries(map))
    /\ is_empty(map) <=> AllEntries(map) = <<>>
    /\ (last.op = "put" /\ Stored(last.pre, last.key)) => size(map) = size(last.pre)

\* C5: get and contains_key on a table with zero buckets return absent and
\* false; no lookup divides by zero.
LookupOnZeroBuckets ==
    (last.op \in {"get", "contains_key"} /\ last.pre.nbuckets = 0)
        => last.ret \in {None, Bool(FALSE)}

\* C6: at most one entry per key exists across all buckets.
NoDuplicateKeys ==
    \A key \in Keys : Cardinality(Positions(map, key)) <= 1

\* an update of a stored key by a put that resized a table of two entries
NoDuplicateKeysWitness ==
    /\ Resized /\ Stored(last.pre, last.key)
    /\ Len(AllEntries(last.pre)) >= 2
    /\ Len(AllEntries(map)) = Len(AllEntries(last.pre))
\* everything the call that just returned is stated about: its key was put
\* by the call before it
PutThenRemove ==
    /\ last.op = "put" /\ last'.op = "remove" /\ last'.key = last.key

\* C3: after put(k, v), remove(k) returns Some(v); afterwards get(k) is absent,
\* contains_key(k) is false and a second remove(k) returns absent, also when
\* other keys share k's bucket.
RemoveRoundTrip ==
    [][PutThenRemove =>
          /\ last'.ret = Some(last.val)
          /\ get(map', last.key) = None
          /\ contains_key(map', last.key) = Bool(FALSE)
          /\ remove(map', last.key).ret = None]_vars

\* C4: remove(k) of a key with no stored entry returns absent and leaves
\* size() unchanged, also when k's bucket holds entries of other keys.
AbsentRemove ==
    (last.op = "remove" /\ ~Stored(last.pre, last.key))
        => (last.ret = None /\ size(map) = size(last.pre))

\* the multiset of the entries of a sequence
BagOf(entries) ==
    [e \in {entries[i] : i \in DOMAIN entries} |->
        Cardinality({i \in DOMAIN entries : entries[i] = e})]

\* C7: the resize run by a put keeps the multiset of entries and the count,
\* and every key put since the last remove is retrievable with the value
\* last put for it, across any number of resizes.
GrowthCorrectness ==
    /\ Resized => LET r == resize(last.pre) IN
                     /\ BagOf(AllEntries(r)) = BagOf(AllEntries(last.pre))
                     /\ size(r) = size(last.pre)
                     /\ r.nbuckets = map.nbuckets
                     /\ \A key \in Keys : get(r, key) = IF last.pre.nbuckets = 0 THEN None
                                                        ELSE get(last.pre, key)
    /\ \A key \in Keys : inserted[key] # 0 => get(map, key) = Some(inserted[key])

\* three distinct keys were inserted, the last put's resize took apart a
\* chain of two entries, and all three keys are retrievable
GrowthCorrectnessWitness ==
    /\ Resized
    /\ \A key \in Keys : inserted[key] # 0 /\ get(map, key) = Some(inserted[key])
    /\ \E i \in DOMAIN last.pre.buckets :
          /\ Len(last.pre.buckets[i]) >= 2
          /\ Len(Bucket(resize(last.pre).buckets, i)) < Len(last.pre.buckets[i])
    /\ map.nbuckets >= 4 * INITIAL_SIZE

\* yielded is an initial part of entries
IsPrefix(yielded, entries) ==
    /\ Len(yielded) <= Len(entries)
    /\ yielded = SubSeq(entries, 1, Len(yielded))

\* C8: an iterator driven until next() returns None has yielded every stored
\* entry exactly once and nothing else, buckets in array order and entries of
\* a bucket in storage order.
IterationComplete ==
    iter.active =>
        /\ IsPrefix(iter.yielded, AllEntries(map))
        /\ iter.done => iter.yielded = AllEntries(map)

\* a finished iteration over three entries in two buckets, one of them a
\* chain of two
IterationCompleteWitness ==
    /\ iter.done /\ Len(iter.yielded) = 3
    /\ Cardinality(DOMAIN map.buckets) = 2
    /\ iter.yielded = AllEntries(map)

\* C9: a put on a table with at least one bucket and an entry count below
\* half the number of buckets leaves the number of buckets unchanged.
GrowOnlyWhenHalfFull ==
    (last.op = "put" /\ last.pre.nbuckets > 0
        /\ size(last.pre) < last.pre.nbuckets \div 2
        /\ Len(AllEntries(last.pre)) < last.pre.nbuckets \div 2)
        => map.nbuckets = last.pre.nbuckets

\* C10: the number of buckets is 0 after new(), only put changes it, and
\* every change is 0 -> INITIAL_SIZE or n -> 2n; it never decreases.
BucketsOnlyGrow ==
    /\ map.nbuckets = 0
    /\ [][/\ map'.nbuckets >= map.nbuckets
          /\ map'.nbuckets # map.nbuckets =>
                /\ last'.op = "put"
                /\ \/ map.nbuckets = 0 /\ map'.nbuckets = INITIAL_SIZE
                   \/ map.nbuckets > 0 /\ map'.nbuckets = 2 * map.nbuckets]_vars

\* the array was allocated by one put and doubled by two more, with a remove
\* and a lookup in between
BucketsOnlyGrowWitness ==
    /\ map.nbuckets = 4 * INITIAL_SIZE
    /\ last.op \in {"remove", "get", "contains_key", "size", "is_empty"}
    /\ last.pre.nbuckets = map.nbuckets

\* C11: new() gives zero buckets, size() = 0 and is_empty(); remove(k) on a
\* table whose count is 0 returns absent at once, computing no bucket index
\* and leaving the bucket array and the count as they were.
EmptyTable ==
    /\ last.op = "new" => (map.nbuckets = 0 /\ size(map) = 0 /\ is_empty(map))
    /\ (last.op = "remove" /\ size(last.pre) = 0)
          => (last.ret = None /\ map = last.pre)
    /\ size(map) = 0
          => \A key \in Keys : remove(map, key) = [map |-> map, ret |-> None]

\* remove was called on the table new() returned and came back with absent
EmptyTableWitness ==
    /\ last.op = "remove" /\ last.pre = New
    /\ last.ret = None /\ map = New /\ ~panicked

\* C12: contains_key(k) returns true exactly when get(k) returns Some, and it
\* is true for every key that was put and on which remove was not called
\* since (the keys of `live`).
ContainsKeyIsGetSome ==
    \A key \in Keys :
        /\ contains_key(map, key) = Bool(TRUE) <=> get(map, key).tag = "Some"
        /\ key \in live => contains_key(map, key) = Bool(TRUE)

\* C13: every stored entry (k, v) is in the bucket with index hash(k) mod the
\* current number of buckets, after put's append, remove's swap-with-last and
\* resize's rehash.
Placement ==
    \A i \in DOMAIN map.buckets : \A p \in 1..Len(map.buckets[i]) :
        /\ i \in 0..(map.nbuckets - 1)
        /\ calculate_hash(map.buckets[i][p][1], map.nbuckets) = i

\* a remove took an entry out of a chain of two in a table that was resized
\* at least twice and had entries in two buckets
PlacementWitness ==
    /\ last.op = "remove" /\ last.ret.tag = "Some"
    /\ map.nbuckets >= 2 * INITIAL_SIZE
    /\ Cardinality(DOMAIN last.pre.buckets) >= 2
    /\ Len(AllEntries(last.pre)) >= 3
    /\ Len(AllEntries(map)) = Len(AllEntries(last.pre)) - 1
    /\ Cardinality(DOMAIN map.buckets) = Cardinality(DOMAIN last.pre.buckets)

\* C14: with at least one bucket, get(k) returns Some(v) when an entry (k, v)
\* is stored anywhere in the table and absent when no entry has key k; get
\* changes neither the buckets nor the count.
GetFindsStored ==
    /\ map.nbuckets > 0 =>
          \A key \in Keys :
              /\ \A ip \in Positions(map, key) :
                     get(map, key) = Some(map.buckets[ip[1]][ip[2]][2])
              /\ ~Stored(map, key) => get(map, key) = None
    /\ last.op = "get" => map = last.pre

\* a get returned the value of an entry that is second in its chain, in a
\* table that also lacks one of the keys
GetFindsStoredWitness ==
    /\ last.op = "get" /\ last.ret.tag = "Some"
    /\ \E ip \in Positions(map, last.key) : ip[2] = 2
    /\ \E key \in Keys : ~Stored(map, key) /\ get(map, key) = None

\* C15: when remove(k) returns Some(v), exactly one entry was removed, it is
\* the entry with key k and value v, the last entry of its chain took the
\* vacated slot and the count went down by one; when remove(k) returns
\* absent, the buckets and the count are unchanged.
RemoveEffect ==
    last.op = "remove" =>
        /\ last.ret.tag = "Some" =>
              \E ip \in Positions(last.pre, last.key) :
                  LET chain == last.pre.buckets[ip[1]] IN
                  /\ chain[ip[2]] = <<last.key, last.ret.val>>
                  /\ map.buckets = SetBucket(last.pre.buckets, ip[1],
                                             swap_remove(chain, ip[2]))
                  /\ map.nbuckets = last.pre.nbuckets
                  /\ size(map) = size(last.pre) - 1
        /\ last.ret = None => map = last.pre

\* C16: on a table of c buckets and n entries that is not mutated meanwhile,
\* the cursor of next() advances at most c times in all (so at most c + 1
\* times in one call), next() returns None after exactly n Some results, and
\* every later call returns None too.
IterationFinite ==
    iter.active =>
        /\ iter.outer <= map.nbuckets
        /\ Len(iter.yielded) <= Len(AllEntries(map))
        /\ iter.nones >= 1 =>
              /\ iter.done
              /\ Len(iter.yielded) = Len(AllEntries(map))
              /\ next(map, iter.outer, iter.inner).item = <<>>

\* next() returned None a second time, after three entries in a table of at
\* least 2048 buckets
IterationFiniteWitness ==
    /\ iter.active /\ iter.nones = 2 /\ iter.done
    /\ Len(iter.yielded) = 3
    /\ map.nbuckets >= 2 * INITIAL_SIZE
    /\ iter.outer = map.nbuckets

\* C17: len is never below the number of stored entries, so remove's
\* `self.len -= 1` only runs when len >= 1 and len never underflows.
CountNoUnderflow ==
    /\ size(map) >= Len(AllEntries(map))
    /\ size(map) >= 0
    /\ (last.op = "remove" /\ last.ret.tag = "Some") => size(last.pre) >= 1

\* a remove took the count from 1 to 0 and the last entry out of the table
CountNoUnderflowWitness ==
    /\ last.op = "remove" /\ last.ret.tag = "Some"
    /\ size(last.pre) = 1 /\ size(map) = 0
    /\ AllEntries(map) = <<>>

\* what get(key) tells about a table: its result, and absent for the table
\* without buckets, where no key is stored
Lookup(m, key) == IF m.nbuckets = 0 THEN None ELSE get(m, key)

\* C18: for all keys k # k2, put(k, v) leaves the result of get(k2) as it
\* was, also when the put resizes and when k and k2 share a bucket.
PutFrame ==
    last.op = "put" =>
        \A k2 \in Keys \ {last.key} : get(map, k2) = Lookup(last.pre, k2)

\* a put that resized, into the bucket where another key is stored, in a
\* table that lacked a third key
PutFrameWitness ==
    /\ Resized
    /\ \E k2 \in Keys \ {last.key} :
          /\ get(map, k2).tag = "Some"
          /\ get(last.pre, k2) = get(map, k2)
          /\ calculate_hash(k2, map.nbuckets) = calculate_hash(last.key, map.nbuckets)
    /\ \E k3 \in Keys \ {last.key} : get(map, k3) = None

\* C19: for all keys k # k2, remove(k) leaves the entry of k2 untouched: if
\* k2 was stored with v2 before, get(k2) is still Some(v2) afterwards, also
\* when k and k2 share a bucket.
RemoveFrame ==
    last.op = "remove" =>
        \A k2 \in Keys \ {last.key} :
            Lookup(last.pre, k2).tag = "Some" => get(map, k2) = Lookup(last.pre, k2)
====
